---------------------------- MODULE Spec2Model ----------------------------
(***************************************************************************)
(* Model of bd_feedback_ptakizawa/feedback.py: the course-evaluation       *)
(* feedback pipeline (metadata extraction, schedule windowing, question    *)
(* selection, instructor resolution, session attribution, rating           *)
(* aggregation, comment collection, report assembly) and the upload flow   *)
(* that triggers it.                                                       *)
(*                                                                         *)
(* A DataFrame is a record [columns |-> set of column names, rows |->      *)
(* sequence of row records].  A Python exception is the record             *)
(* [raised |-> <exception name>].  Floats that the code rounds are kept as *)
(* scaled integers: an average as tenths, a share as thousandths (so the   *)
(* percent the code emits, share * 100, is thousandths / 10).              *)
(***************************************************************************)
EXTENDS Integers, Sequences, FiniteSets, TLC

(***************************************************************************)
(* Module-level constants of feedback.py                                   *)
(***************************************************************************)
LARGE_GROUPS ==
    {"Lecture", "TBL", "Interactive Sessions", "Panel", "Clinical Correlations"}

SMALL_GROUPS == {"Workshop", "Lab"}

DATA_COLUMNS ==
    <<"CourseName", "EvalTitle", "EvalName", "QuestionType", "QuestionText",
      "EvaluateeFirst", "EvaluateeLast">>

FEEDBACK_TYPE == <<"Large Group", "Small Group">>

FEEDBACK_NUMBERS == {1, 2, 3}

\* Python's None in a numeric slot and pandas' NaN in a numeric column, both
\* encoded as integers outside the rating scale (every comparison with NaN is
\* False); NoFrame is None where a DataFrame is expected.
None == -1000

NaN == -999

NoFrame == [none |-> TRUE]

(***************************************************************************)
(* Python / pandas primitives                                              *)
(***************************************************************************)
Range(s) == {s[i] : i \in 1..Len(s)}

\* str.find(sub) != -1
Contains(s, sub) ==
    \E i \in 1..(Len(s) - Len(sub) + 1) : SubSeq(s, i, i + Len(sub) - 1) = sub

\* response >= 0.0
GreaterThanZero_KeepsZero(r) == r # NaN /\ r >= 0

\* response > 0.0 (False for NaN)
GreaterThanZero(r) == r # NaN /\ r > 0

RECURSIVE Sum(_)
Sum(s) == IF s = <<>> THEN 0 ELSE Head(s) + Sum(Tail(s))

\* list.count(v)
Count(s, v) == Cardinality({i \in 1..Len(s) : s[i] = v})

\* round(num / den, digits) * 10^digits as an integer, num >= 0, den > 0:
\* Python rounds to the nearest value, a tie to the even one.
RoundScaled(num, den, scale) ==
    LET q == (num * scale) \div den
        r == (num * scale) % den
    IN  IF 2 * r > den THEN q + 1
        ELSE IF 2 * r < den THEN q
        ELSE IF q % 2 = 0 THEN q ELSE q + 1

\* all orders in which list(set(...)) may enumerate a set
Orderings(S) ==
    {f \in [1..Cardinality(S) -> S] : \A i, j \in 1..Cardinality(S) : i # j => f[i] # f[j]}

(***************************************************************************)
(* Rating Aggregator and Comment Collector                                 *)
(***************************************************************************)
\* the appends moved into the branch that has responses
RatingFields_SkipsEmpty(temp_df, question) ==
    LET question_df == SelectSeq(temp_df, LAMBDA row : row.QuestionText = question)
        responses == [i \in 1..Len(question_df) |-> question_df[i].ResponseValue]
        non_zero_responses == SelectSeq(responses, LAMBDA r : r # NaN /\ r > 0)
        n == Len(non_zero_responses)
    IN  IF n > 0
        THEN << RoundScaled(Sum(non_zero_responses), n, 10),
                n,
                RoundScaled(Count(non_zero_responses, 5) + Count(non_zero_responses, 4), n, 1000),
                RoundScaled(Count(non_zero_responses, 1) + Count(non_zero_responses, 2), n, 1000) >>
        ELSE <<>>

\* the four fields appended for one question (lines 224-241)
RatingFields(temp_df, question) ==
    LET question_df == SelectSeq(temp_df, LAMBDA row : row.QuestionText = question)
        responses == [i \in 1..Len(question_df) |-> question_df[i].ResponseValue]
        non_zero_responses == SelectSeq(responses, GreaterThanZero)
        n == Len(non_zero_responses)
    IN  IF n > 0
        THEN << RoundScaled(Sum(non_zero_responses), n, 10),
                n,
                RoundScaled(Count(non_zero_responses, 5) + Count(non_zero_responses, 4), n, 1000),
                RoundScaled(Count(non_zero_responses, 1) + Count(non_zero_responses, 2), n, 1000) >>
        ELSE << None, n, None, None >>

\* the loop over questions_to_evaluate (lines 223-241)
RECURSIVE RatingsLoop(_, _)
RatingsLoop(temp_df, questions_to_evaluate) ==
    IF questions_to_evaluate = <<>> THEN <<>>
    ELSE RatingFields(temp_df, Head(questions_to_evaluate))
            \o RatingsLoop(temp_df, Tail(questions_to_evaluate))

\* the test without the check of the type
KeepComment_AnyType(comment) == ~Contains(comment.repr, "-----")

\* type(comment) is str and comment.find('-----') == -1 (line 244)
KeepComment(comment) == comment.type = "str" /\ ~Contains(comment.repr, "-----")

NoComments == [type |-> "str", repr |-> "No comments"]

\* lines 243-248
CollectComments(temp_df) ==
    LET text_rows == SelectSeq(temp_df, LAMBDA row : row.QuestionType = "Text")
        all_comments == [i \in 1..Len(text_rows) |-> text_rows[i].ResponseText]
        faculty_comments == SelectSeq(all_comments, KeepComment)
    IN  IF Len(faculty_comments) > 0 THEN faculty_comments ELSE <<NoComments>>

\* name is the tuple <<last name, first name>>
generate_ratings_and_comments_for_name(fb, nm, questions_to_evaluate) ==
    LET last_name == nm[1]
        first_name == nm[2]
        temp_df == SelectSeq(fb.rows, LAMBDA row :
                        row.EvaluateeLast = last_name /\ row.EvaluateeFirst = first_name)
    IN  [ name     |-> first_name \o " " \o last_name,
          ratings  |-> RatingsLoop(temp_df, questions_to_evaluate),
          comments |-> CollectComments(temp_df) ]

(***************************************************************************)
(* Question Selector and Instructor Resolver                               *)
(***************************************************************************)
\* the test for one marker only
KeepQuestion_OneMarker(q) == ~Contains(q, "offensive remarks")

\* q.find('offensive remarks') == -1 and q.find('mistreatment') == -1 (line 100)
KeepQuestion(q) == ~Contains(q, "offensive remarks") /\ ~Contains(q, "mistreatment")

\* The texts of the returned list; the list itself is these texts in the
\* order in which list(set(...)) enumerates them, which Python leaves open.
generate_questions_from_evaluation(fb) ==
    LET ratings_df == SelectSeq(fb.rows, LAMBDA row : row.QuestionType = "Radio")
        radio_questions == {ratings_df[i].QuestionText : i \in 1..Len(ratings_df)}
    IN  {q \in radio_questions : KeepQuestion(q)}

\* Python's ordering of str: by code point, a proper prefix first (the
\* characters that occur in names, in code-point order)
ASCII == " -.0123456789ABCDEFGHIJKLMNOPQRSTUVWXYZabcdefghijklmnopqrstuvwxyz"

Ord(c) == CHOOSE i \in 1..Len(ASCII) : SubSeq(ASCII, i, i) = c

RECURSIVE StrLess(_, _)
StrLess(a, b) ==
    IF Len(b) = 0 THEN FALSE
    ELSE IF Len(a) = 0 THEN TRUE
    ELSE LET ca == Ord(SubSeq(a, 1, 1))
             cb == Ord(SubSeq(b, 1, 1))
         IN  IF ca # cb THEN ca < cb
             ELSE StrLess(SubSeq(a, 2, Len(a)), SubSeq(b, 2, Len(b)))

\* tuple comparison (last name, then first name)
NameLess(x, y) == StrLess(x[1], y[1]) \/ (x[1] = y[1] /\ StrLess(x[2], y[2]))

\* list(set(full_name)) followed by full_name.sort() (lines 114-119)
generate_faculty_names(fb) ==
    LET full_name == {<<fb.rows[i].EvaluateeLast, fb.rows[i].EvaluateeFirst>> :
                          i \in 1..Len(fb.rows)}
    IN  CHOOSE f \in Orderings(full_name) :
            \A i, j \in 1..Len(f) : i < j => NameLess(f[i], f[j])

(***************************************************************************)
(* Metadata Extractor                                                      *)
(***************************************************************************)
Raise(exception) == [raised |-> exception]

Digits == "0123456789"

IsDigit(c) == \E i \in 1..Len(Digits) : SubSeq(Digits, i, i) = c

\* int(c) of a one-character decimal string
DigitValue(c) == (CHOOSE i \in 1..Len(Digits) : SubSeq(Digits, i, i) = c) - 1

\* lines 47-52
FeedbackTypeOf(eval_title) ==
    IF Contains(eval_title, "Large Group") THEN "Large Group"
    ELSE IF Contains(eval_title, "Workshop/Lab") THEN "Small Group"
    ELSE "Feedback type not detected"

\* Every outcome the call can have: list(set(...))[0] takes whichever
\* distinct value the set enumerates first.
generate_feedback_info(df) ==
    LET n == Len(df.rows)
        course == {df.rows[i].CourseName : i \in 1..n}
        course_name == IF Cardinality(course) = 1
                       THEN CHOOSE c \in course : TRUE
                       ELSE "Multiple courses detected"
        eval_titles == {df.rows[i].EvalTitle : i \in 1..n}
        eval_names == {df.rows[i].EvalName : i \in 1..n}
        Last(eval_name) == SubSeq(eval_name, Len(eval_name), Len(eval_name))
    IN  IF eval_titles = {} THEN {Raise("IndexError")}
        ELSE { IF Len(eval_name) = 0 THEN Raise("IndexError")
               ELSE IF ~IsDigit(Last(eval_name)) THEN Raise("ValueError")
               ELSE [ course_name       |-> course_name,
                      feedback_type     |-> FeedbackTypeOf(eval_title),
                      evaluation_number |-> DigitValue(Last(eval_name)) ]
               : eval_title \in eval_titles, eval_name \in eval_names }

(***************************************************************************)
(* Schedule Windower                                                       *)
(***************************************************************************)
\* int(s) of a string of decimal digits
RECURSIVE ToInt(_)
ToInt(s) ==
    IF Len(s) = 0 THEN 0
    ELSE 10 * ToInt(SubSeq(s, 1, Len(s) - 1)) + DigitValue(SubSeq(s, Len(s), Len(s)))

\* pd.to_datetime(..., format='%Y-%m-%d'), as a number that orders as the date does
ParseDate(s) ==
    ToInt(SubSeq(s, 1, 4)) * 10000 + ToInt(SubSeq(s, 6, 7)) * 100 + ToInt(SubSeq(s, 9, 10))

\* pd.to_datetime(..., format='%I:%M %p'), as minutes after midnight
ParseTime(s) ==
    LET hour == ToInt(SubSeq(s, 1, 2)) % 12
        minute == ToInt(SubSeq(s, 4, 5))
    IN  (IF SubSeq(s, 7, 8) = "PM" THEN hour + 12 ELSE hour) * 60 + minute

KeyLessEq(x, y) == x.Date < y.Date \/ (x.Date = y.Date /\ x.tFrom <= y.tFrom)

\* sort_values(by=['Date', 'tFrom']): rows with equal keys keep their order
RECURSIVE InsertRow(_, _)
InsertRow(sorted, row) ==
    IF sorted = <<>> THEN <<row>>
    ELSE IF KeyLessEq(sorted[Len(sorted)], row) THEN Append(sorted, row)
    ELSE Append(InsertRow(SubSeq(sorted, 1, Len(sorted) - 1), row), sorted[Len(sorted)])

RECURSIVE SortValues(_)
SortValues(rows) ==
    IF rows = <<>> THEN <<>>
    ELSE InsertRow(SortValues(SubSeq(rows, 1, Len(rows) - 1)), rows[Len(rows)])

\* lines 71-74: the schedule as the call leaves it (it is changed in place);
\* index is the label reset_index gives each row, its position from 0
SortedSchedule(rows) ==
    LET parsed == [i \in 1..Len(rows) |->
                      [rows[i] EXCEPT !.Date = ParseDate(@), !.tFrom = ParseTime(@)]]
        sorted == SortValues(parsed)
    IN  [i \in 1..Len(sorted) |->
            [ index |-> i - 1, ID |-> sorted[i].ID, Date |-> sorted[i].Date,
              tFrom |-> sorted[i].tFrom, cName |-> sorted[i].cName,
              iLearningTypeID |-> sorted[i].iLearningTypeID ]]

\* lines 75-76: the index labels of the assessment rows, after insert(0, 0)
Assessments(sorted) ==
    LET marked == SelectSeq(sorted, LAMBDA row : Contains(row.iLearningTypeID, "Assessment"))
    IN  <<0>> \o [i \in 1..Len(marked) |-> marked[i].index]

\* list[i] of Python: i counts from 0, a negative i from the end
InRange(list, i) == -Len(list) <= i /\ i < Len(list)

PyGet(list, i) == IF i >= 0 THEN list[i + 1] ELSE list[Len(list) + i + 1]

\* lines 78-81
TypeFilter(window, feedback_type) ==
    IF feedback_type = "Large Group"
    THEN SelectSeq(window, LAMBDA row : row.iLearningTypeID \in LARGE_GROUPS)
    ELSE IF feedback_type = "Small Group"
    THEN SelectSeq(window, LAMBDA row : row.iLearningTypeID \in SMALL_GROUPS)
    ELSE window

\* the window taken one boundary late
WindowSlice_NextWindow(sorted, assessments, evaluation_number) ==
    SubSeq(sorted, assessments[evaluation_number + 1] + 1,
                   IF evaluation_number + 2 <= Len(assessments)
                   THEN assessments[evaluation_number + 2] ELSE Len(sorted))

\* line 77: schedule[a:b] takes the rows at positions a, ..., b - 1
WindowSlice(sorted, assessments, evaluation_number) ==
    SubSeq(sorted, PyGet(assessments, evaluation_number - 1) + 1,
                   PyGet(assessments, evaluation_number))

\* a window past the last boundary comes back empty
generate_schedule_for_evaluation_Truncates(rows, evaluation_number, feedback_type) ==
    LET sorted == SortedSchedule(rows)
        assessments == Assessments(sorted)
    IN  IF ~InRange(assessments, evaluation_number - 1)
           \/ ~InRange(assessments, evaluation_number)
        THEN [rows |-> <<>>]
        ELSE [rows |-> TypeFilter(WindowSlice(sorted, assessments, evaluation_number),
                                  feedback_type)]

\* The rows returned, or the exception raised
generate_schedule_for_evaluation(rows, evaluation_number, feedback_type) ==
    LET sorted == SortedSchedule(rows)
        assessments == Assessments(sorted)
    IN  IF ~InRange(assessments, evaluation_number - 1)
           \/ ~InRange(assessments, evaluation_number)
        THEN Raise("IndexError")
        ELSE [rows |-> TypeFilter(WindowSlice(sorted, assessments, evaluation_number),
                                  feedback_type)]

(***************************************************************************)
(* Session Attributor                                                      *)
(***************************************************************************)
NoSessionsFound == <<"No sessions found">>

\* lines 193-196 for one enumeration order of the set of session ids
RECURSIVE TitlesLoop(_, _)
TitlesLoop(session_ids, schedule_rows) ==
    IF session_ids = <<>> THEN <<>>
    ELSE LET id == Head(session_ids)
             found == SelectSeq(schedule_rows, LAMBDA row : row.ID = id)
             rest == TitlesLoop(Tail(session_ids), schedule_rows)
         IN  IF found # <<>> THEN <<found[1].cName>> \o rest ELSE rest

\* lines 185-198: every list the loop body can build for one name
SessionTitles(nm, schedule_rows, sessions_rows) ==
    LET sessions_taught == SelectSeq(sessions_rows, LAMBDA row :
                               row.cLname = nm[1] /\ row.cFname = nm[2])
        session_ids == {sessions_taught[i].ID : i \in 1..Len(sessions_taught)}
    IN  IF Cardinality(session_ids) > 0
        THEN {TitlesLoop(order, schedule_rows) : order \in Orderings(session_ids)}
        ELSE {NoSessionsFound}

\* Every list of {'name', 'sessions'} entries the call can return
get_sessions_for_names(names, schedule_rows, sessions_rows) ==
    {f \in [1..Len(names) ->
                [name : {names[i][2] \o " " \o names[i][1] : i \in 1..Len(names)},
                 sessions : UNION {SessionTitles(names[i], schedule_rows, sessions_rows) :
                                       i \in 1..Len(names)}]] :
        \A i \in 1..Len(names) :
            /\ f[i].name = names[i][2] \o " " \o names[i][1]
            /\ f[i].sessions \in SessionTitles(names[i], schedule_rows, sessions_rows)}

(***************************************************************************)
(* State                                                                   *)
(***************************************************************************)
VARIABLES
    pc,                   \* where control is
    feedback,             \* the response table
    schedule,             \* the course schedule, or NoFrame
    faculty,              \* the teaching-assignment table, or NoFrame
    feedback_number,      \* the evaluation number chosen on the page (line 316)
    feedback_type,        \* the feedback type chosen on the page (line 315)
    name,                 \* argument of generate_ratings_and_comments_for_name
    full_names,           \* the instructors, as generate_faculty_names lists them
    questions,            \* the questions to evaluate
    result,               \* what the last call returned or raised
    sessions_taught,      \* locals of process_feedback_data ...
    faculty_ratings,
    faculty_comments,
    names_for_dataframe,
    sessions,
    values_and_counts_df,
    download,             \* the zip offered for download, or Unset
    page                  \* what the page shows after the script has run

args == <<feedback, faculty, feedback_number, feedback_type, name, full_names, questions>>

locals == <<sessions_taught, faculty_ratings, faculty_comments, names_for_dataframe,
            sessions, values_and_counts_df, download>>

vars == <<pc, schedule, result, page, args, locals>>

\* a name that is not bound (yet)
Unset == [unset |-> TRUE]

LocalsUnset ==
    /\ sessions_taught = Unset
    /\ faculty_ratings = Unset
    /\ faculty_comments = Unset
    /\ names_for_dataframe = Unset
    /\ sessions = Unset
    /\ values_and_counts_df = Unset
    /\ download = Unset

Frame(columns, rows) == [columns |-> columns, rows |-> rows]

Raised(r) == "raised" \in DOMAIN r

(***************************************************************************)
(* Input tables                                                            *)
(***************************************************************************)
MaxRows == 4

FEEDBACK_COLUMNS == Range(DATA_COLUMNS) \cup {"ResponseValue", "ResponseText"}

Str(s) == [type |-> "str", repr |-> s]

\* an empty cell read by pandas: the float NaN
NaNCell == [type |-> "float", repr |-> "nan"]

Ann == <<"Lee", "Ann">>

Jane == <<"Doe", "Jane">>

Q1 == "Explained concepts clearly"

Q2 == "Was well organized"

\* a rating row and a free-text row of one evaluation of one course
Radio(nm, question, value) ==
    [ CourseName |-> "Anatomy", EvalTitle |-> "Anatomy Large Group Feedback",
      EvalName |-> "Feedback 1", QuestionType |-> "Radio", QuestionText |-> question,
      EvaluateeLast |-> nm[1], EvaluateeFirst |-> nm[2],
      ResponseValue |-> value, ResponseText |-> NaNCell ]

Text(nm, question, comment) ==
    [ CourseName |-> "Anatomy", EvalTitle |-> "Anatomy Large Group Feedback",
      EvalName |-> "Feedback 1", QuestionType |-> "Text", QuestionText |-> question,
      EvaluateeLast |-> nm[1], EvaluateeFirst |-> nm[2],
      ResponseValue |-> NaN, ResponseText |-> comment ]

\* all tables of at most MaxRows rows drawn from a set of rows
Tables(rows) == UNION {[1..n -> rows] : n \in 0..MaxRows}

RatingRows ==
    {Radio(Ann, Q1, v) : v \in {-1, 0, 1, 2, 3, 4, 5}}
        \cup {Radio(Jane, Q1, 5), Radio(Ann, Q2, 2), Text(Ann, Q1, Str("Great job"))}

\* the responses [0, 0, 5, 4, 3] of one instructor to one question
ExampleRatings ==
    <<Radio(Ann, Q1, 0), Radio(Ann, Q1, 0), Radio(Ann, Q1, 5), Radio(Ann, Q1, 4),
      Radio(Ann, Q1, 3)>>

(***************************************************************************)
(* Calls of the single functions                                           *)
(***************************************************************************)
InitCall ==
    /\ pc = "call"
    /\ result = Unset
    /\ page = Unset
    /\ LocalsUnset

InitRatings ==
    /\ InitCall
    /\ feedback \in {Frame(FEEDBACK_COLUMNS, rows) : rows \in Tables(RatingRows) \cup {ExampleRatings}}
    /\ name \in {Ann, Jane}
    /\ questions \in {<<Q1, Q2>>, <<Q2>>}
    /\ schedule = NoFrame
    /\ faculty = NoFrame
    /\ full_names = Unset
    /\ feedback_number = 1
    /\ feedback_type = "Large Group"

CallRatings ==
    /\ pc = "call"
    /\ result' = generate_ratings_and_comments_for_name(feedback, name, questions)
    /\ pc' = "returned"
    /\ UNCHANGED <<schedule, page, args, locals>>

SpecRatings == InitRatings /\ [][CallRatings]_vars

CommentRows ==
    {Text(Ann, "Comments", c) :
        c \in {Str("Great job"), Str("-----"), [type |-> "int", repr |-> "42"],
               Str("Needs work"), NaNCell, Str("Fine ----- n/a")}}
        \cup {Text(Jane, "Comments", Str("Clear slides")),
              [Radio(Ann, Q1, 4) EXCEPT !.ResponseText = Str("Agree")]}

\* the responses ["Great job", "-----", 42, "Needs work"] about one instructor
ExampleComments ==
    <<Text(Ann, "Comments", Str("Great job")), Text(Ann, "Comments", Str("-----")),
      Text(Ann, "Comments", [type |-> "int", repr |-> "42"]),
      Text(Ann, "Comments", Str("Needs work"))>>

InitComments ==
    /\ InitCall
    /\ feedback \in {Frame(FEEDBACK_COLUMNS, rows) : rows \in Tables(CommentRows)}
    /\ name \in {Ann, Jane}
    /\ questions \in {<<Q1>>, <<>>}
    /\ schedule = NoFrame
    /\ faculty = NoFrame
    /\ full_names = Unset
    /\ feedback_number = 1
    /\ feedback_type = "Large Group"

SpecComments == InitComments /\ [][CallRatings]_vars

QuestionRows ==
    {Radio(Ann, q, 4) : q \in {Q1, Q2, "Made offensive remarks", "Saw mistreatment of students",
                                "Offensive Remarks were made"}}
        \cup {Text(Ann, q, Str("Great job")) : q \in {Q2, "Comments", "Describe the mistreatment"}}

InitQuestions ==
    /\ InitCall
    /\ feedback \in {Frame(FEEDBACK_COLUMNS, rows) : rows \in Tables(QuestionRows)}
    /\ name = Unset
    /\ questions = Unset
    /\ schedule = NoFrame
    /\ faculty = NoFrame
    /\ full_names = Unset
    /\ feedback_number = 1
    /\ feedback_type = "Large Group"

CallQuestions ==
    /\ pc = "call"
    /\ \E order \in Orderings(generate_questions_from_evaluation(feedback)) :
          result' = [list |-> order]
    /\ pc' = "returned"
    /\ UNCHANGED <<schedule, page, args, locals>>

SpecQuestions == InitQuestions /\ [][CallQuestions]_vars

InfoRows ==
    {[Radio(Ann, Q1, 4) EXCEPT !.CourseName = course, !.EvalTitle = eval[1], !.EvalName = eval[2]] :
        course \in {"Anatomy", "Homeostasis"},
        eval \in {<<"Anatomy Large Group Feedback", "Feedback 1">>,
                  <<"Homeostasis Workshop/Lab Feedback", "Feedback 2">>,
                  <<"End of Course Evaluation", "Final">>,
                  <<"Anatomy Large Group Feedback", "">>}}

InitInfo ==
    /\ InitCall
    /\ feedback \in {Frame(FEEDBACK_COLUMNS, rows) : rows \in Tables(InfoRows)}
    /\ name = Unset
    /\ questions = Unset
    /\ schedule = NoFrame
    /\ faculty = NoFrame
    /\ full_names = Unset
    /\ feedback_number = 1
    /\ feedback_type = "Large Group"

CallFeedbackInfo ==
    /\ pc = "call"
    /\ \E outcome \in generate_feedback_info(feedback) :
          /\ result' = outcome
          /\ pc' = IF Raised(outcome) THEN "raised" ELSE "returned"
    /\ UNCHANGED <<schedule, page, args, locals>>

SpecInfo == InitInfo /\ [][CallFeedbackInfo]_vars

MaxSessions == 3

SCHEDULE_COLUMNS == {"ID", "Date", "tFrom", "cName", "iLearningTypeID"}

\* the session with the given ID
Session(id, when, type) ==
    [ ID |-> id, Date |-> when[1], tFrom |-> when[2], cName |-> "Session",
      iLearningTypeID |-> type ]

SessionTimes ==
    {<<"2024-09-02", "09:00 AM">>, <<"2024-09-02", "01:00 PM">>, <<"2024-09-03", "12:00 PM">>}

SessionTypes == {"Lecture", "Lab", "Assessment"}

\* all schedules of at most MaxSessions sessions, the i-th with ID i
Schedules ==
    UNION {{[i \in 1..n |-> Session(i, when[i], type[i])] :
               when \in [1..n -> SessionTimes], type \in [1..n -> SessionTypes]} :
           n \in 0..MaxSessions}

ExampleDays ==
    <<"2024-09-02", "2024-09-03", "2024-09-04", "2024-09-05", "2024-09-06",
      "2024-09-09", "2024-09-10">>

ExampleTimes == <<"09:00 AM", "12:00 PM", "01:00 PM">>

\* 21 sessions, listed latest first, whose assessments are the sessions at
\* positions 5, 12 and 20 once sorted
ExampleSchedule ==
    [i \in 1..21 |->
        LET p == 21 - i
        IN  Session(i, <<ExampleDays[(p \div 3) + 1], ExampleTimes[(p % 3) + 1]>>,
                    IF p \in {5, 12, 20} THEN "Assessment"
                    ELSE IF p % 2 = 0 THEN "Lecture" ELSE "Lab")]

InitSchedule ==
    /\ InitCall
    /\ schedule \in {Frame(SCHEDULE_COLUMNS, rows) : rows \in Schedules \cup {ExampleSchedule}}
    /\ feedback_number \in FEEDBACK_NUMBERS
    /\ feedback_type \in Range(FEEDBACK_TYPE) \cup {"Feedback type not detected"}
    /\ feedback = NoFrame
    /\ faculty = NoFrame
    /\ name = Unset
    /\ questions = Unset
    /\ full_names = Unset

CallSchedule ==
    /\ pc = "call"
    /\ schedule' = [schedule EXCEPT !.rows = SortedSchedule(@)]
    /\ result' = generate_schedule_for_evaluation(schedule.rows, feedback_number, feedback_type)
    /\ pc' = IF Raised(result') THEN "raised" ELSE "returned"
    /\ UNCHANGED <<page, args, locals>>

SpecSchedule == InitSchedule /\ [][CallSchedule]_vars

MaxAssignments == 3

MaxWindow == 2

FACULTY_COLUMNS == {"cLname", "cFname", "ID"}

Assignment(nm, id) == [cLname |-> nm[1], cFname |-> nm[2], ID |-> id]

AssignmentRows == {Assignment(Ann, 1), Assignment(Ann, 2), Assignment(Ann, 3), Assignment(Jane, 2)}

\* the rows a windowed schedule may hold: sessions 1 and 2, one listed twice
WindowRows ==
    { [index |-> 0, ID |-> 1, Date |-> 20240902, tFrom |-> 540, cName |-> "Cell Biology",
       iLearningTypeID |-> "Lecture"],
      [index |-> 1, ID |-> 2, Date |-> 20240902, tFrom |-> 780, cName |-> "Histology",
       iLearningTypeID |-> "Lecture"],
      [index |-> 2, ID |-> 1, Date |-> 20240903, tFrom |-> 540, cName |-> "Cell Biology II",
       iLearningTypeID |-> "Lecture"] }

InitSessions ==
    /\ InitCall
    /\ full_names \in {<<>>, <<Ann>>, <<Jane, Ann>>}
    /\ schedule \in {Frame(SCHEDULE_COLUMNS \cup {"index"}, rows) :
                         rows \in UNION {[1..n -> WindowRows] : n \in 0..MaxWindow}}
    /\ faculty \in {Frame(FACULTY_COLUMNS, rows) :
                        rows \in UNION {[1..n -> AssignmentRows] : n \in 0..MaxAssignments}}
    /\ feedback = NoFrame
    /\ feedback_number = 1
    /\ feedback_type = "Large Group"
    /\ name = Unset
    /\ questions = Unset

CallSessions ==
    /\ pc = "call"
    /\ \E outcome \in get_sessions_for_names(full_names, schedule.rows, faculty.rows) :
          result' = [list |-> outcome]
    /\ pc' = "returned"
    /\ UNCHANGED <<schedule, page, args, locals>>

SpecSessions == InitSessions /\ [][CallSessions]_vars

(***************************************************************************)
(* process_feedback_data                                                   *)
(***************************************************************************)
METRICS ==
    <<"Average Rating", "Count", "Percent Strongly Agree or Agree",
      "Percent Disagree or Strongly Disagree">>

\* ', '.join(list)
RECURSIVE Join(_)
Join(list) ==
    IF list = <<>> THEN ""
    ELSE IF Len(list) = 1 THEN list[1]
    ELSE list[1] \o ", " \o Join(Tail(list))

\* pd.MultiIndex.from_product([questions, METRICS]) (line 292)
FromProduct(qs) ==
    [i \in 1..(4 * Len(qs)) |-> <<qs[((i - 1) \div 4) + 1], METRICS[((i - 1) % 4) + 1]>>]

\* lines 293-296: the rating table, with the Sessions column when the
\* lengths agree
AssembleTable(index, qs, ratings, session_list) ==
    LET table == [index |-> index, columns |-> FromProduct(qs), data |-> ratings]
    IN  IF Len(session_list) = Len(table.index)
        THEN [ index |-> index, columns |-> Append(table.columns, <<"Sessions", "">>),
               data |-> ratings, Sessions |-> session_list ]
        ELSE table

Fail(exception) ==
    /\ pc' = "raised"
    /\ result' = Raise(exception)

\* lines 266-267
ProcessSelect ==
    /\ pc = "process"
    /\ IF ~({"QuestionType", "QuestionText", "EvaluateeFirst", "EvaluateeLast"}
                \subseteq feedback.columns)
       THEN /\ Fail("KeyError")
            /\ UNCHANGED <<questions, full_names>>
       ELSE /\ \E order \in Orderings(generate_questions_from_evaluation(feedback)) :
                  questions' = order
            /\ full_names' = generate_faculty_names(feedback)
            /\ pc' = "sessions"
            /\ UNCHANGED result
    /\ UNCHANGED <<schedule, page, feedback, faculty, feedback_number, feedback_type, name, locals>>

\* lines 273-282
ProcessSessions ==
    /\ pc = "sessions"
    /\ IF schedule # NoFrame /\ faculty # NoFrame
       THEN LET schedule_for_eval ==
                    generate_schedule_for_evaluation(schedule.rows, feedback_number, feedback_type)
            IN  /\ schedule' = [schedule EXCEPT !.rows = SortedSchedule(@)]
                /\ IF Raised(schedule_for_eval)
                   THEN /\ Fail(schedule_for_eval.raised)
                        /\ UNCHANGED <<sessions_taught, faculty_ratings, faculty_comments,
                                       names_for_dataframe, sessions>>
                   ELSE /\ \E outcome \in get_sessions_for_names(full_names,
                                              schedule_for_eval.rows, faculty.rows) :
                              sessions_taught' = [list |-> outcome]
                        /\ faculty_ratings' = <<>>
                        /\ faculty_comments' = <<>>
                        /\ names_for_dataframe' = <<>>
                        /\ sessions' = <<>>
                        /\ pc' = "names"
                        /\ UNCHANGED result
       ELSE /\ sessions_taught' = NoFrame
            /\ faculty_ratings' = <<>>
            /\ faculty_comments' = <<>>
            /\ names_for_dataframe' = <<>>
            /\ sessions' = <<>>
            /\ pc' = "names"
            /\ UNCHANGED <<schedule, result>>
    /\ UNCHANGED <<page, args, values_and_counts_df, download>>

\* one pass of the loop of lines 283-290
ProcessName ==
    /\ pc = "names"
    /\ Len(names_for_dataframe) < Len(full_names)
    /\ IF (questions # <<>> /\ "ResponseValue" \notin feedback.columns)
            \/ "ResponseText" \notin feedback.columns
       THEN /\ Fail("KeyError")
            /\ UNCHANGED <<faculty_ratings, faculty_comments, names_for_dataframe, sessions>>
       ELSE LET r == generate_ratings_and_comments_for_name(
                         feedback, full_names[Len(names_for_dataframe) + 1], questions)
            IN  /\ names_for_dataframe' = Append(names_for_dataframe, r.name)
                /\ faculty_ratings' = Append(faculty_ratings, r.ratings)
                /\ faculty_comments' = Append(faculty_comments,
                                              [Name |-> r.name, Comments |-> r.comments])
                /\ IF sessions_taught # NoFrame
                   THEN LET items == SelectSeq(sessions_taught.list,
                                               LAMBDA item : item.name = r.name)
                        IN  sessions' = Append(sessions, Join(items[1].sessions))
                   ELSE UNCHANGED sessions
                /\ UNCHANGED <<pc, result>>
    /\ UNCHANGED <<schedule, page, args, sessions_taught, values_and_counts_df, download>>

\* lines 292-309: the table is assembled and the two files are zipped and
\* offered for download
ProcessAssemble ==
    /\ pc = "names"
    /\ Len(names_for_dataframe) = Len(full_names)
    /\ values_and_counts_df' =
           AssembleTable(names_for_dataframe, questions, faculty_ratings, sessions)
    /\ download' = [Ratings |-> values_and_counts_df', Comments |-> faculty_comments]
    /\ pc' = "done"
    /\ UNCHANGED <<schedule, result, page, args, sessions_taught, faculty_ratings,
                   faculty_comments, names_for_dataframe, sessions>>

Process == ProcessSelect \/ ProcessSessions \/ ProcessName \/ ProcessAssemble

MaxResponses == 2

ProcessRows == {Radio(Ann, Q1, 4), Text(Jane, "Comments", Str("Great job"))}

\* schedules of at most MaxSessions sessions, listed latest first
ProcessSchedules ==
    UNION {{[i \in 1..n |-> Session(i, <<ExampleDays[n + 1 - i], "09:00 AM">>, type[i])] :
               type \in [1..n -> SessionTypes]} :
           n \in 0..MaxSessions}

ProcessAssignments ==
    {<<>>, <<Assignment(Ann, 1)>>, <<Assignment(Jane, 2), Assignment(Ann, 2)>>,
     <<Assignment(Ann, 3), Assignment(Ann, 1), Assignment(Jane, 1)>>}

InitProcess ==
    /\ pc = "process"
    /\ result = Unset
    /\ page = Unset
    /\ LocalsUnset
    /\ name = Unset
    /\ questions = Unset
    /\ full_names = Unset
    /\ feedback \in {Frame(FEEDBACK_COLUMNS, rows) :
                         rows \in UNION {[1..n -> ProcessRows] : n \in 0..MaxResponses}}
    /\ schedule \in {NoFrame} \cup {Frame(SCHEDULE_COLUMNS, rows) : rows \in ProcessSchedules}
    /\ faculty \in {NoFrame} \cup {Frame(FACULTY_COLUMNS, rows) : rows \in ProcessAssignments}
    /\ feedback_number \in FEEDBACK_NUMBERS
    /\ feedback_type \in Range(FEEDBACK_TYPE)

SpecProcess == InitProcess /\ [][Process]_vars

(***************************************************************************)
(* The upload page (the script under __main__)                             *)
(***************************************************************************)
MaxUploadRows == 2

UploadRows ==
    {Radio(Ann, Q1, 4), Text(Ann, "Comments", Str("Great job")),
     [Radio(Jane, Q1, 2) EXCEPT !.EvalTitle = "Anatomy Workshop/Lab Feedback"]}

\* the columns an uploaded file may lack
UploadOmissions == {"CourseName", "EvalTitle", "EvaluateeLast", "ResponseText"}

\* the files a user may upload: one that read_csv cannot parse, and tables
\* of at most MaxUploadRows rows that lack some columns
Uploads ==
    {[parsable |-> FALSE, columns |-> {}, rows |-> <<>>]}
        \cup {[parsable |-> TRUE, columns |-> FEEDBACK_COLUMNS \ omitted, rows |-> rows] :
                 omitted \in SUBSET UploadOmissions,
                 rows \in UNION {[1..n -> UploadRows] : n \in 0..MaxUploadRows}}

Shown(messages, button, data) == [messages |-> messages, button |-> button, data |-> data]

\* line 327
MissingColumns(columns) == SelectSeq(DATA_COLUMNS, LAMBDA item : item \notin columns)

\* lines 328-329
MissingMessage(missing_columns) ==
    IF Len(missing_columns) > 0
    THEN <<"The file is missing these columns: " \o Join(missing_columns)
              \o ". Please check the file.">>
    ELSE <<>>

\* One run of the script with a file in the uploader (lines 319-338).  After
\* a failed read_csv, feedback_df is not bound and line 326 raises NameError;
\* without an EvalTitle column line 330 raises KeyError: either ends the run
\* before a button is drawn.
RunScript ==
    /\ pc = "idle"
    /\ \E feedback_file \in Uploads :
          IF ~feedback_file.parsable
          THEN /\ page' = Shown(<<"Could not parse the file. Please check the formating of the file.">>,
                                FALSE, NoFrame)
               /\ Fail("NameError")
          ELSE LET feedback_df == Frame(feedback_file.columns, feedback_file.rows)
                   messages == MissingMessage(MissingColumns(feedback_df.columns))
                   eval_titles == {feedback_df.rows[i].EvalTitle : i \in 1..Len(feedback_df.rows)}
               IN  IF "EvalTitle" \notin feedback_df.columns
                   THEN /\ page' = Shown(messages, FALSE, NoFrame)
                        /\ Fail("KeyError")
                   ELSE /\ IF Cardinality(eval_titles) > 1
                           THEN \E selected_title \in eval_titles :
                                   page' = Shown(messages, TRUE,
                                                 Frame(feedback_df.columns,
                                                       SelectSeq(feedback_df.rows, LAMBDA row :
                                                           row.EvalTitle = selected_title)))
                           ELSE page' = Shown(messages, TRUE, feedback_df)
                        /\ pc' = "page"
                        /\ UNCHANGED result
    /\ UNCHANGED <<schedule, args, locals>>

\* the 'Process File' button is clicked: process_feedback_data runs on its
\* argument, schedule and faculty left at their default None (lines 335, 338)
ClickProcess ==
    /\ pc = "page"
    /\ page.button
    /\ feedback' = page.data
    /\ schedule' = NoFrame
    /\ faculty' = NoFrame
    /\ pc' = "process"
    /\ UNCHANGED <<result, page, feedback_number, feedback_type, name, full_names, questions,
                   locals>>

Init ==
    /\ pc = "idle"
    /\ result = Unset
    /\ page = Unset
    /\ LocalsUnset
    /\ feedback = Unset
    /\ schedule = Unset
    /\ faculty = Unset
    /\ name = Unset
    /\ questions = Unset
    /\ full_names = Unset
    /\ feedback_number \in FEEDBACK_NUMBERS
    /\ feedback_type \in Range(FEEDBACK_TYPE)

Next == RunScript \/ ClickProcess \/ Process

Spec == Init /\ [][Next]_vars

(***************************************************************************)
(* Claims about the Rating Aggregator                                      *)
(***************************************************************************)
\* the rows of the named instructor for question q whose rating is positive
PositiveRows(q) ==
    {i \in 1..Len(feedback.rows) :
        /\ feedback.rows[i].EvaluateeLast = name[1]
        /\ feedback.rows[i].EvaluateeFirst = name[2]
        /\ feedback.rows[i].QuestionText = q
        /\ feedback.rows[i].ResponseValue > 0}

RECURSIVE TotalRating(_)
TotalRating(S) ==
    IF S = {} THEN 0
    ELSE LET i == CHOOSE j \in S : TRUE
         IN  feedback.rows[i].ResponseValue + TotalRating(S \ {i})

RowsRated(q, values) == {i \in PositiveRows(q) : feedback.rows[i].ResponseValue \in values}

\* x / unit is a value nearest to num / den among the multiples of 1 / unit
Nearest(x, unit, num, den) ==
    LET diff == unit * num - x * den
    IN  2 * (IF diff < 0 THEN -diff ELSE diff) <= den

\* the four fields emitted for the k-th question
Fields(k) == SubSeq(result.ratings, 4 * k - 3, 4 * k)

\* C1 (as amended): for every question with at least one positive rating the
\* four adjacent fields are the mean of the positive ratings rounded to one
\* decimal, the number of positive ratings, and the shares of ratings 4 or 5
\* and of ratings 1 or 2, each rounded to three decimals and then multiplied
\* by 100 (a percentage with one decimal place, kept here as thousandths);
\* responses [0, 0, 5, 4, 3] give 4.0, 3, 66.7 and 0.
C1_RatingFields ==
    pc = "returned" =>
        /\ \A k \in 1..Len(questions) :
              LET P == PositiveRows(questions[k])
                  n == Cardinality(P)
              IN  n > 0 =>
                    /\ Nearest(Fields(k)[1], 10, TotalRating(P), n)
                    /\ Fields(k)[2] = n
                    /\ Nearest(Fields(k)[3], 1000, Cardinality(RowsRated(questions[k], {4, 5})), n)
                    /\ Nearest(Fields(k)[4], 1000, Cardinality(RowsRated(questions[k], {1, 2})), n)
        /\ (feedback.rows = ExampleRatings /\ name = Ann /\ questions[1] = Q1)
              => Fields(1) = <<40, 3, 667, 0>>

C1_Witness ==
    /\ pc = "returned"
    /\ feedback.rows = ExampleRatings /\ name = Ann /\ questions = <<Q1, Q2>>
    /\ SubSeq(result.ratings, 1, 4) = <<40, 3, 667, 0>>

\* C1 (as stated): the two percentages are rounded to a whole number, and
\* responses [0, 0, 5, 4, 3] give percent-favorable 67.
C1_WholePercent ==
    pc = "returned" =>
        /\ \A k \in 1..Len(questions) :
              LET P == PositiveRows(questions[k])
                  n == Cardinality(P)
              IN  n > 0 =>
                    /\ Fields(k)[3] % 10 = 0
                    /\ Fields(k)[4] % 10 = 0
                    /\ Nearest(Fields(k)[3] \div 10, 100, Cardinality(RowsRated(questions[k], {4, 5})), n)
                    /\ Nearest(Fields(k)[4] \div 10, 100, Cardinality(RowsRated(questions[k], {1, 2})), n)
        /\ (feedback.rows = ExampleRatings /\ name = Ann /\ questions[1] = Q1)
              => Fields(1) = <<40, 3, 670, 0>>

\* C2: a question for which the instructor has no response, or none that is
\* positive, gets count 0 and None for the average and both percentages; the
\* four fields are emitted all the same, so the rating vector has exactly
\* four entries per question.
C2_NoValidRatings ==
    pc = "returned" =>
        /\ Len(result.ratings) = 4 * Len(questions)
        /\ \A k \in 1..Len(questions) :
              PositiveRows(questions[k]) = {} => Fields(k) = <<None, 0, None, None>>

C2_Witness ==
    /\ pc = "returned"
    /\ questions = <<Q1, Q2>>
    /\ PositiveRows(Q1) = {} /\ PositiveRows(Q2) = {}
    /\ \E i \in 1..Len(feedback.rows) :
          /\ feedback.rows[i].EvaluateeLast = name[1]
          /\ feedback.rows[i].EvaluateeFirst = name[2]
          /\ feedback.rows[i].QuestionText = Q1
          /\ feedback.rows[i].ResponseValue = 0
    /\ result.ratings = <<None, 0, None, None, None, 0, None, None>>

(***************************************************************************)
(* Claims about the Comment Collector                                      *)
(***************************************************************************)
\* the free-text rows of the named instructor whose response is a string
\* without the "-----" marker
ValidCommentRows ==
    {i \in 1..Len(feedback.rows) :
        /\ feedback.rows[i].EvaluateeLast = name[1]
        /\ feedback.rows[i].EvaluateeFirst = name[2]
        /\ feedback.rows[i].QuestionType = "Text"
        /\ feedback.rows[i].ResponseText.type = "str"
        /\ ~Contains(feedback.rows[i].ResponseText.repr, "-----")}

\* C3: the comments returned for an instructor are the instructor's
\* free-text responses that are strings without the "-----" marker, in source
\* row order (["Great job", "-----", 42, "Needs work"] gives ["Great job",
\* "Needs work"]); when there is none, the one-element list of the
\* no-comments sentinel (the string 'No comments').
C3_Comments ==
    pc = "returned" =>
        /\ ValidCommentRows # {} =>
              /\ Len(result.comments) = Cardinality(ValidCommentRows)
              /\ \A i \in ValidCommentRows :
                    result.comments[Cardinality({j \in ValidCommentRows : j <= i})]
                        = feedback.rows[i].ResponseText
        /\ ValidCommentRows = {} => result.comments = <<Str("No comments")>>
        /\ (feedback.rows = ExampleComments /\ name = Ann)
              => result.comments = <<Str("Great job"), Str("Needs work")>>

C3_Witness ==
    /\ pc = "returned"
    /\ feedback.rows = ExampleComments /\ name = Ann
    /\ result.comments = <<Str("Great job"), Str("Needs work")>>

(***************************************************************************)
(* Claims about the Question Selector and the Metadata Extractor           *)
(***************************************************************************)
RadioTexts ==
    {feedback.rows[i].QuestionText :
        i \in {j \in 1..Len(feedback.rows) : feedback.rows[j].QuestionType = "Radio"}}

HasMarker(q) == Contains(q, "offensive remarks") \/ Contains(q, "mistreatment")

\* C10: the list returned holds exactly the distinct question texts of the
\* rating rows that contain neither "offensive remarks" nor "mistreatment"
\* (case-sensitive): no text with a marker, none twice, none that occurs on
\* free-text rows only.
C10_Questions ==
    pc = "returned" =>
        /\ Range(result.list) = {q \in RadioTexts : ~HasMarker(q)}
        /\ \A i, j \in 1..Len(result.list) : i # j => result.list[i] # result.list[j]
        /\ \A i \in 1..Len(result.list) :
              /\ ~HasMarker(result.list[i])
              /\ result.list[i] \in RadioTexts

C10_Witness ==
    /\ pc = "returned"
    /\ "Made offensive remarks" \in RadioTexts
    /\ \E i \in 1..Len(feedback.rows) :
          feedback.rows[i].QuestionType = "Text" /\ feedback.rows[i].QuestionText = "Comments"
    /\ Range(result.list) = {Q1, "Offensive Remarks were made"}

CourseValues == {feedback.rows[i].CourseName : i \in 1..Len(feedback.rows)}

\* the last character of every evaluation name is a digit
NamesNumbered ==
    \A i \in 1..Len(feedback.rows) :
        LET eval_name == feedback.rows[i].EvalName
        IN  Len(eval_name) > 0 /\ IsDigit(SubSeq(eval_name, Len(eval_name), Len(eval_name)))

\* C8: with a single distinct course value the call returns that value; with
\* no rows, or with two or more distinct course values, it does not raise and
\* returns the "multiple courses" marker as the course name (a failure to
\* read the evaluation number off the evaluation name apart).
C8_CourseName ==
    pc # "call" =>
        /\ (Cardinality(CourseValues) = 1 /\ ~Raised(result))
              => result.course_name \in CourseValues
        /\ (Cardinality(CourseValues) # 1 /\ NamesNumbered)
              => /\ ~Raised(result)
                 /\ result.course_name = "Multiple courses detected"

(***************************************************************************)
(* Claims about the Schedule Windower                                      *)
(***************************************************************************)
\* the positions, from 0, of the assessment rows of the sorted schedule
AssessmentRows ==
    {i \in 0..(Len(schedule.rows) - 1) :
        Contains(schedule.rows[i + 1].iLearningTypeID, "Assessment")}

\* boundary[n], with boundary = [0] followed by the assessment positions
Boundary(n) ==
    IF n = 0 THEN 0
    ELSE CHOOSE b \in AssessmentRows : Cardinality({a \in AssessmentRows : a <= b}) = n

InGroup(type) ==
    /\ feedback_type = "Large Group" => type \in LARGE_GROUPS
    /\ feedback_type = "Small Group" => type \in SMALL_GROUPS

SortedByDateAndTime ==
    \A i, j \in 1..Len(schedule.rows) :
        i < j =>
            \/ schedule.rows[i].Date < schedule.rows[j].Date
            \/ /\ schedule.rows[i].Date = schedule.rows[j].Date
               /\ schedule.rows[i].tFrom <= schedule.rows[j].tFrom

\* C6: with the schedule sorted by (date, start time) and 1 <= N <= number
\* of assessment rows, the rows returned are, in order, the rows at positions
\* boundary[N-1] <= p < boundary[N] whose session type is in the large-group
\* set (large-group category) or the small-group set (small-group category);
\* assessments at positions 5, 12, 20 give positions 0..4 for N = 1 and
\* 5..11 for N = 2.
C6_Window ==
    (pc # "call" /\ feedback_number \in 1..Cardinality(AssessmentRows)) =>
        /\ pc = "returned"
        /\ SortedByDateAndTime
        /\ \A i \in 1..Len(schedule.rows) :
              (\E j \in 1..Len(result.rows) : result.rows[j] = schedule.rows[i])
                  <=> /\ Boundary(feedback_number - 1) <= i - 1
                      /\ i - 1 < Boundary(feedback_number)
                      /\ InGroup(schedule.rows[i].iLearningTypeID)
        /\ \A j \in 1..Len(result.rows) :
              /\ result.rows[j] \in Range(schedule.rows)
              /\ \A k \in 1..Len(result.rows) :
                    j < k => result.rows[j].index < result.rows[k].index
        /\ (AssessmentRows = {5, 12, 20} /\ feedback_type = "Feedback type not detected")
              => {result.rows[j].index : j \in 1..Len(result.rows)}
                    = (IF feedback_number = 1 THEN 0..4
                       ELSE IF feedback_number = 2 THEN 5..11 ELSE 12..19)

C6_Witness ==
    /\ pc = "returned"
    /\ AssessmentRows = {5, 12, 20}
    /\ feedback_number = 2
    /\ feedback_type = "Large Group"
    /\ {result.rows[j].index : j \in 1..Len(result.rows)} = {6, 8, 10}

(***************************************************************************)
(* Claims about the Session Attributor                                     *)
(***************************************************************************)
\* the session identifiers assigned to an instructor
AssignedIDs(nm) ==
    {faculty.rows[i].ID :
        i \in {j \in 1..Len(faculty.rows) :
                  faculty.rows[j].cLname = nm[1] /\ faculty.rows[j].cFname = nm[2]}}

ScheduledIDs == {schedule.rows[i].ID : i \in 1..Len(schedule.rows)}

\* C4: the sessions listed for an instructor are never empty: they are the
\* titles of the instructor's assigned sessions that are in the windowed
\* schedule or, when there is none (no assignment, or no assigned session in
\* the window), the single entry of the no-sessions sentinel; the call
\* fails for no instructor.
C4_Sessions ==
    pc # "call" =>
        /\ pc = "returned"
        /\ Len(result.list) = Len(full_names)
        /\ \A i \in 1..Len(full_names) :
              LET matched == AssignedIDs(full_names[i]) \cap ScheduledIDs
              IN  /\ result.list[i].sessions # <<>>
                  /\ matched = {} => result.list[i].sessions = <<"No sessions found">>
                  /\ matched # {} => Len(result.list[i].sessions) = Cardinality(matched)

(***************************************************************************)
(* Claims about process_feedback_data                                      *)
(***************************************************************************)
\* the Session Attributor ran: both tables were supplied (line 273)
AttributorRan == schedule # NoFrame /\ faculty # NoFrame

\* C5: the rating table has one row per instructor of the Instructor
\* Resolver, in its order, and the Sessions column is present exactly when
\* the Session Attributor ran and produced that many rows; it is absent
\* whenever no schedule or teaching-assignment table was supplied, the empty
\* instructor list included.
C5_TableShape ==
    pc = "done" =>
        /\ values_and_counts_df.index =
              [i \in 1..Len(full_names) |-> full_names[i][2] \o " " \o full_names[i][1]]
        /\ Len(values_and_counts_df.data) = Len(full_names)
        /\ ("Sessions" \in DOMAIN values_and_counts_df)
              <=> (AttributorRan /\ Len(sessions_taught.list) = Len(full_names))

\* the assessment rows of the schedule supplied
AssessmentCount ==
    Cardinality({i \in 1..Len(schedule.rows) :
                    Contains(schedule.rows[i].iLearningTypeID, "Assessment")})

\* C7: when the evaluation number exceeds the number of assessment rows of
\* the schedule, the windower raises IndexError instead of returning a
\* window, and the run ends there: nothing is assembled or offered for
\* download.
C7_MalformedSchedule ==
    (AttributorRan /\ feedback_number > AssessmentCount) =>
        /\ pc \in {"process", "sessions", "raised"}
        /\ pc = "raised" => result = Raise("IndexError")
        /\ sessions_taught = Unset
        /\ values_and_counts_df = Unset
        /\ download = Unset

C7_Witness ==
    /\ AttributorRan
    /\ AssessmentCount = 2
    /\ feedback_number = 3
    /\ pc = "raised"
    /\ result = Raise("IndexError")
    /\ download = Unset

(***************************************************************************)
(* Claims about the upload page                                            *)
(***************************************************************************)
Processing == pc \in {"process", "sessions", "names", "done"}

\* C9: when the uploaded table lacks a required column the schema error is
\* reported and processing never starts: the 'Process File' button is not
\* offered, and process_feedback_data does not run, for that upload.
C9_SchemaError ==
    /\ (pc = "page" /\ page.button) =>
          /\ Range(DATA_COLUMNS) \subseteq page.data.columns
          /\ page.messages = <<>>
    /\ Processing => Range(DATA_COLUMNS) \subseteq feedback.columns

=============================================================================
